---- MODULE Spec2Model ----
(***************************************************************************)
(* Verification model of the dea-notebooks analysis notebooks.             *)
(*                                                                         *)
(* Each notebook is a linear sequence of code cells run in one kernel.     *)
(* The module models                                                       *)
(*   - the kernel namespace while a notebook's cells run top to bottom,    *)
(*   - the site-matching loop (Site_matching.ipynb),                       *)
(*   - the baseline split and significance mask (Forestry.ipynb),          *)
(*   - the tide filter and time compositing (coastal erosion notebook),    *)
(*   - the tidal binning, interval medians and DEM mask (intertidal        *)
(*     elevation notebook).                                                *)
(* Floating point values are modelled as integers or exact fractions, and  *)
(* NaN as the value NaN below.                                             *)
(***************************************************************************)
EXTENDS Integers, Sequences, FiniteSets, TLC

\* The floating point not-a-number value of a band, height or measurement
\* (an integer outside every range of values used).
NaN == 0 - 999999

\* The not-a-number value of a quotient <<numerator, denominator>>: 0 / 0.
QNaN == <<0, 0>>

\* Comparisons of floats: every comparison with NaN is false.
FloatLT(a, b) == a # NaN /\ b # NaN /\ a < b
FloatLE(a, b) == a # NaN /\ b # NaN /\ a <= b
FloatGT(a, b) == a # NaN /\ b # NaN /\ a > b

\* The elements of a sequence.
Range(s) == {s[i] : i \in DOMAIN s}

\* The records of a set, which differ in their time, as a sequence in
\* increasing order of time.
RECURSIVE SortedByTime(_)
SortedByTime(S) ==
  IF S = {} THEN <<>>
  ELSE LET first == CHOOSE x \in S : \A y \in S : x.time <= y.time
       IN <<first>> \o SortedByTime(S \ {first})

VARIABLES
  \* -- a kernel running a notebook
  nb,        \* the notebook open in the kernel
  filled,    \* whether the analyst completed the blank assignments
  cell,      \* index of the next code cell to run
  kernel,    \* names bound in the kernel namespace
  unbound,   \* names that a statement read while they were not bound
  \* -- Site_matching.ipynb
  obs_window,        \* days from the ground observation to search
  site_dates,        \* the "Date" column: one day per table row
  site,              \* index of the site of the outer loop
  site_values,       \* the ground values of the current site, per table row
  ds_s2,             \* the timesteps loaded for the current site
  count,             \* index of the date of the inner loop
  rows,              \* the result lists, one record per appended entry
  location_results,  \* the compiled table written to MatchedData.csv
  spc,               \* position in the cell: "site", "date", "compile", "done"
  \* -- Forestry.ipynb
  time_baseline,        \* the date that splits the observations
  ds_ndvi,              \* ds_s2.NDVI: the observations in time order
  baseline_sample,      \* observations at or before time_baseline
  postbaseline_sample,  \* observations after time_baseline
  p_val,                \* t_test.p_val, per pixel
  diff_mean,            \* per pixel
  sig_diff_mean,        \* per pixel
  fpc,                  \* next cell: "samples", "ttest", "visualise", "done"
  \* -- coastal erosion notebook
  time_step,          \* length of the periods to compare, in years
  landsat_ds,         \* the loaded images in time order
  landsat_filtered,   \* the images kept by the tide filter
  landsat_summaries,  \* one summary image per period
  shoreline_call,     \* the arguments contour_extract was called with
  cpc,                \* next cell: "tag", "filter", "combine", "extract",
                      \* "done", "error"
  \* -- intertidal elevation notebook
  intertidal_ds,         \* landsat_ds of this notebook
  tide_intervals,        \* the tidal interval of each image of intertidal_ds
  landsat_intervals,     \* one summary image per tidal interval
  intertidal_dem,        \* interpolated elevation of the pixel
  intertidal_dem_clean,  \* elevation restricted to the intertidal zone
  depthcontour_call,     \* the arguments contour_extract was called with
  ipc,                   \* next cell: "bin", "group", "contour", "dem",
                         \* "clean", "done", "error"
  \* -- a case-study notebook run, edited and run again
  rnb,      \* the notebook
  changed,  \* the parameters the analyst gave new values
  rcell,    \* index of the next code cell to run
  rkernel,  \* the kernel namespace and output files: name -> value
  raised,   \* <<cell, statement>> that raised in the second run, or <<0, 0>>
  rpc,      \* "first", "rerun", "done", "aborted"
  \* -- the band index of one pixel
  ixnb,         \* the notebook computing the index
  band_a,       \* first band: green (MNDWI, NDWI), red edge (NDCI)
  band_b,       \* second band: swir1 (MNDWI), nir (NDWI), red (NDCI)
  index_value,  \* the index as a fraction, QNaN when not a number
  ixpc,         \* "load", "done"
  \* -- tide heights of the intertidal images
  tide_data,            \* the hourly tide heights of tide_file, in time order
  landsat_times,        \* landsat_ds.time, in ticks
  landsat_tideheights,  \* the interpolated height of each image, times
                        \* TicksPerHour, NaN where there is none
  tdpc,                 \* "read", "interp", "done"
  \* -- the average colour computed through Dask
  ds_band,   \* the values of one band, pixel by pixel
  chunking,  \* the places where dask_chunks cuts the pixels into chunks
  partials,  \* chunk -> the [total, n] its task gave, for the finished tasks
  finished,  \* the chunk tasks in the order they finished
  average,   \* the mean as a float <<mantissa, exponent>>, QNaN if none
  dpc        \* "compute", "done"

runVars == <<nb, filled, cell, kernel, unbound>>
siteVars == <<obs_window, site_dates, site, site_values, ds_s2, count, rows,
              location_results, spc>>

forestVars == <<time_baseline, ds_ndvi, baseline_sample, postbaseline_sample,
                p_val, diff_mean, sig_diff_mean, fpc>>

coastVars == <<time_step, landsat_ds, landsat_filtered, landsat_summaries,
               shoreline_call, cpc>>
tidalVars == <<intertidal_ds, tide_intervals, landsat_intervals, intertidal_dem,
               intertidal_dem_clean, depthcontour_call, ipc>>

rerunVars == <<rnb, changed, rcell, rkernel, raised, rpc>>

indexVars == <<ixnb, band_a, band_b, index_value, ixpc>>

tideVars == <<tide_data, landsat_times, landsat_tideheights, tdpc>>

daskVars == <<ds_band, chunking, partials, finished, average, dpc>>

\* What a part of the model leaves alone.
notRun == <<siteVars, forestVars, coastVars, tidalVars, rerunVars, indexVars,
    tideVars, daskVars>>
notSite == <<runVars, forestVars, coastVars, tidalVars, rerunVars, indexVars,
    tideVars, daskVars>>
notForest == <<runVars, siteVars, coastVars, tidalVars, rerunVars, indexVars,
    tideVars, daskVars>>
notCoast == <<runVars, siteVars, forestVars, tidalVars, rerunVars, indexVars,
    tideVars, daskVars>>
notTidal == <<runVars, siteVars, forestVars, coastVars, rerunVars, indexVars,
    tideVars, daskVars>>
notRerun == <<runVars, siteVars, forestVars, coastVars, tidalVars, indexVars,
    tideVars, daskVars>>
notIndex == <<runVars, siteVars, forestVars, coastVars, tidalVars, rerunVars,
    tideVars, daskVars>>
notTide == <<runVars, siteVars, forestVars, coastVars, tidalVars, rerunVars,
    indexVars, daskVars>>
notDask == <<runVars, siteVars, forestVars, coastVars, tidalVars, rerunVars,
    indexVars, tideVars>>

(***************************************************************************)
(* Part 1: notebooks as cells and statements                               *)
(***************************************************************************)

\* One top-level statement: the global names it reads and the names it binds.
St(uses, defs) == [uses |-> uses, defs |-> defs]

\* A code cell that parses: its statements in order.
Cell(stmts) == [ok |-> TRUE, stmts |-> stmts]

\* A code cell that does not parse (an assignment with nothing after "="):
\* IPython raises SyntaxError before running any statement of the cell.
SyntaxErrorCell == [ok |-> FALSE, stmts |-> <<>>]

\* Code cells of src/DEA_sandbox/Code_Examples/Site_matching.ipynb, in notebook order.
SiteMatchingCells ==
  <<
    \* lines 56-70
    Cell(<<St({}, {"datacube"}),
        St({}, {"CRS", "point"}),
        St({}, {"dask"}),
        St({}, {"datetime", "timedelta"}),
        St({}, {"plt"}),
        St({}, {"np"}),
        St({}, {"pd"}),
        St({}, {"sys"}),
        St({}, {"xr"}),
        St({}, {"LinearRegression"}),
        St({}, {"spearmanr"}),
        St({}, {"load_ard"})>>),
    \* lines 88-88
    Cell(<<St({"datacube"}, {"dc"})>>),
    \* lines 108-110
    Cell(<<St({}, {"sample_loc_file"}),
        St({}, {"sample_date_file"}),
        St({}, {"obs_window"})>>),
    \* lines 126-130
    Cell(<<St({"pd", "sample_loc_file"}, {"locations"}),
        St({"locations"}, {})>>),
    \* lines 139-143
    Cell(<<St({"pd", "sample_date_file"}, {"observations"}),
        St({"observations"}, {})>>),
    \* lines 164-264
    Cell(<<St({"observations"}, {"site_dates"}),
        St({}, {"products"}),
        St({}, {"measurements"}),
        St({}, {"red_values"}),
        St({}, {"rededge_values"}),
        St({}, {"ndci_values"}),
        St({}, {"time_deltas"}),
        St({}, {"site_names"}),
        St({}, {"match_values"}),
        St({}, {"match_dates"}),
        St({"locations", "observations", "point", "CRS", "load_ard", "dc", "products", "measurements", "site_dates", "datetime", "np", "pd", "obs_window", "site_names", "match_dates", "match_values", "ndci_values", "red_values", "rededge_values", "time_deltas"}, {"site", "site_latitude", "site_longitude", "site_name", "site_count", "site_values", "site_point_ll", "site_xy", "site_x", "site_y", "buffer", "search_lon", "search_lat", "ds_s2", "count", "date_string", "target_date", "ds_closest", "time_delta"}),
        St({"pd", "site_names", "match_dates", "time_deltas", "match_values", "red_values", "rededge_values", "ndci_values"}, {"location_results"}),
        St({}, {"file_path"}),
        St({"location_results", "file_path"}, {})>>),
    \* lines 280-288
    Cell(<<St({"np", "location_results"}, {"X"}),
        St({"location_results"}, {"y"}),
        St({"np", "X"}, {"x_lin"}),
        St({"LinearRegression"}, {"lm"}),
        St({"lm", "X", "y"}, {"model"}),
        St({"lm", "x_lin"}, {"predictions"})>>),
    \* lines 297-302
    Cell(<<St({"location_results"}, {}),
        St({"plt", "x_lin", "predictions"}, {}),
        St({"plt"}, {}),
        St({"plt"}, {}),
        St({"plt"}, {}),
        St({"plt"}, {})>>),
    \* lines 311-316
    Cell(<<St({"lm", "X", "y"}, {"pearson_rsq"}),
        St({"spearmanr", "X", "y"}, {"spearman_rho"}),
        St({}, {}),
        St({"pearson_rsq"}, {}),
        St({"spearman_rho"}, {})>>),
    \* lines 332-335
    Cell(<<St({"location_results"}, {"x"}),
        St({"np", "x", "y"}, {"poly_func"}),
        St({"np", "x", "y"}, {"poly_coeff", "poly_ssqres", "_"})>>),
    \* lines 344-349
    Cell(<<St({"location_results"}, {}),
        St({"plt", "x_lin", "poly_func"}, {}),
        St({"plt"}, {}),
        St({"plt"}, {}),
        St({"plt"}, {}),
        St({"plt"}, {})>>),
    \* lines 358-363
    Cell(<<St({"np", "y"}, {"poly_ssqtot"}),
        St({"poly_ssqres", "poly_ssqtot"}, {"poly_pearson_rsq"}),
        St({}, {}),
        St({"poly_pearson_rsq"}, {}),
        St({"spearman_rho"}, {})>>),
    \* lines 394-394
    Cell(<<St({"datacube"}, {})>>)
  >>

\* Code cells of src/DEA_sandbox/Case_Studies/Forestry.ipynb, in notebook order.
ForestryCells ==
  <<
    \* lines 69-83
    Cell(<<St({}, {"datacube"}),
        St({}, {"write_geotiff"}),
        St({}, {"CRS"}),
        St({}, {"plt"}),
        St({}, {"np"}),
        St({}, {"pd"}),
        St({}, {"stats"}),
        St({}, {"sys"}),
        St({}, {"xr"}),
        St({}, {"load_ard"}),
        St({}, {"calculate_indices"}),
        St({}, {"display_map", "rgb"})>>),
    \* lines 100-100
    Cell(<<St({"datacube"}, {"dc"})>>),
    \* lines 137-145
    Cell(<<St({}, {"latitude"}),
        St({}, {"longitude"}),
        St({}, {"time"}),
        St({}, {"time_baseline"})>>),
    \* lines 165-165
    Cell(<<St({"display_map", "longitude", "latitude"}, {})>>),
    \* lines 190-211
    Cell(<<St({}, {"products"}),
        St({"longitude", "latitude", "time"}, {"query"}),
        St({"load_ard", "dc", "products", "query"}, {"ds_s2"})>>),
    \* lines 228-228
    Cell(<<St({"ds_s2"}, {})>>),
    \* lines 256-261
    Cell(<<St({}, {"initial_timestep"}),
        St({}, {"final_timestep"}),
        St({"rgb", "ds_s2", "initial_timestep", "final_timestep"}, {})>>),
    \* lines 288-289
    Cell(<<St({"calculate_indices", "ds_s2"}, {"ds_s2"})>>),
    \* lines 306-308
    Cell(<<St({"ds_s2", "initial_timestep", "final_timestep"}, {}),
        St({"plt"}, {})>>),
    \* lines 353-362
    Cell(<<St({"ds_s2", "np", "time_baseline"}, {"baseline_sample"}),
        St({"baseline_sample"}, {}),
        St({"ds_s2", "np", "time_baseline"}, {"postbaseline_sample"}),
        St({"postbaseline_sample"}, {}),
        St({"ds_s2"}, {"sample_lat_coords"}),
        St({"ds_s2"}, {"sample_lon_coords"})>>),
    \* lines 387-409
    Cell(<<St({"stats", "postbaseline_sample", "baseline_sample"}, {"tstat", "p_tstat"}),
        St({"xr", "tstat", "p_tstat", "sample_lon_coords", "sample_lat_coords"}, {"t_test"}),
        St({"t_test"}, {})>>),
    \* lines 437-454
    Cell(<<St({}, {"sig_level"}),
        St({"postbaseline_sample", "baseline_sample"}, {"diff_mean"}),
        St({"plt"}, {"fig", "ax"}),
        St({"diff_mean"}, {}),
        St({"ax"}, {}),
        St({"plt"}, {}),
        St({"postbaseline_sample", "t_test", "sig_level", "baseline_sample"}, {"sig_diff_mean"}),
        St({"plt"}, {"fig", "ax"}),
        St({"sig_diff_mean"}, {}),
        St({"ax"}, {}),
        St({"plt"}, {})>>),
    \* lines 487-493
    Cell(<<St({"xr", "diff_mean", "CRS"}, {"diff_mean_out"}),
        St({"xr", "sig_diff_mean", "CRS"}, {"sig_diff_mean_out"}),
        St({"write_geotiff", "diff_mean_out"}, {}),
        St({"write_geotiff", "sig_diff_mean_out"}, {})>>),
    \* lines 538-538
    Cell(<<St({"datacube"}, {})>>)
  >>

\* Code cells of src/unnamed/part_000, in notebook order.
CoastalErosionCells ==
  <<
    \* lines 50-57
    Cell(<<St({}, {"datacube"}),
        St({}, {"sys"}),
        St({}, {"xr"}),
        St({}, {"pd"}),
        St({}, {"np"}),
        St({}, {"plt"}),
        St({}, {"waterline_funcs"}),
        St({}, {"display_map"})>>),
    \* lines 100-104
    Cell(<<St({}, {"lat_range"}),
        St({}, {"lon_range"}),
        St({}, {"time_range"}),
        St({}, {"time_step"}),
        St({}, {"tide_range"})>>),
    \* lines 122-122
    Cell(<<St({"display_map", "lat_range", "lon_range"}, {})>>),
    \* lines 139-155
    Cell(<<St({"datacube"}, {"dc"}),
        St({"lat_range", "lon_range", "time_range"}, {"query"}),
        St({"waterline_funcs", "dc", "query"}, {"landsat_ds"}),
        St({"landsat_ds"}, {})>>),
    \* lines 174-179
    Cell(<<St({"waterline_funcs", "landsat_ds"}, {})>>),
    \* lines 206-208
    Cell(<<St({"landsat_ds"}, {}),
        St({"landsat_ds"}, {}),
        St({"plt"}, {})>>),
    \* lines 236-242
    Cell(<<St({"waterline_funcs", "landsat_ds"}, {"landsat_ds"}),
        St({"landsat_ds"}, {})>>),
    \* lines 258-262
    Cell(<<St({"landsat_ds"}, {}),
        St({"plt", "tide_range"}, {}),
        St({"plt", "tide_range"}, {}),
        St({"plt"}, {})>>),
    \* lines 279-281
    Cell(<<St({"landsat_ds", "tide_range"}, {"landsat_filtered"}),
        St({"landsat_filtered"}, {})>>),
    \* lines 300-303
    Cell(<<St({"landsat_filtered", "time_step"}, {"landsat_summaries"}),
        St({"landsat_summaries"}, {}),
        St({"plt"}, {})>>),
    \* lines 320-339
    Cell(<<St({"landsat_summaries"}, {"attribute_data"}),
        St({}, {"attribute_dtypes"}),
        St({"waterline_funcs", "landsat_summaries", "landsat_ds", "attribute_data", "attribute_dtypes"}, {"contour_gdf"}),
        St({"landsat_summaries"}, {}),
        St({"contour_gdf", "plt"}, {}),
        St({"plt"}, {})>>),
    \* lines 365-365
    Cell(<<St({"waterline_funcs", "contour_gdf"}, {})>>)
  >>

\* Code cells of src/unnamed/part_001, in notebook order.
IntertidalElevationCells ==
  <<
    \* lines 48-55
    Cell(<<St({}, {"datacube"}),
        St({}, {"sys"}),
        St({}, {"xr"}),
        St({}, {"pd"}),
        St({}, {"np"}),
        St({}, {"plt"}),
        St({}, {"waterline_funcs"}),
        St({}, {"display_map"})>>),
    \* lines 94-97
    Cell(<<St({}, {"lat_range"}),
        St({}, {"lon_range"}),
        St({}, {"time_range"}),
        St({}, {"tide_file"})>>),
    \* lines 115-115
    Cell(<<St({"display_map", "lat_range", "lon_range"}, {})>>),
    \* lines 132-151
    Cell(<<St({"datacube"}, {"dc"}),
        St({"lat_range", "lon_range", "time_range"}, {"query"}),
        St({"waterline_funcs", "dc", "query"}, {"landsat_ds"}),
        St({"landsat_ds"}, {})>>),
    \* lines 170-170
    Cell(<<St({"waterline_funcs", "landsat_ds"}, {})>>),
    \* lines 197-199
    Cell(<<St({"landsat_ds"}, {}),
        St({"landsat_ds"}, {}),
        St({"plt"}, {})>>),
    \* lines 225-226
    Cell(<<St({"pd", "tide_file"}, {"tide_data"}),
        St({"tide_data"}, {})>>),
    \* lines 244-257
    Cell(<<St({"tide_data"}, {"tide_data_xr"}),
        St({"tide_data_xr", "landsat_ds"}, {"landsat_tideheights"}),
        St({"landsat_tideheights", "landsat_ds"}, {}),
        St({"landsat_ds"}, {}),
        St({"plt"}, {})>>),
    \* lines 279-292
    Cell(<<St({"landsat_ds"}, {"landsat_ds"}),
        St({"landsat_ds", "np"}, {"binInterval"}),
        St({"pd", "landsat_ds", "binInterval"}, {"tide_intervals"}),
        St({"xr", "tide_intervals", "landsat_ds"}, {}),
        St({"landsat_ds"}, {})>>),
    \* lines 308-316
    Cell(<<St({"landsat_ds"}, {"landsat_intervals"}),
        St({"landsat_intervals"}, {}),
        St({"plt"}, {})>>),
    \* lines 340-361
    Cell(<<St({"landsat_intervals"}, {"attribute_data"}),
        St({}, {"attribute_dtypes"}),
        St({"waterline_funcs", "landsat_intervals", "landsat_ds", "attribute_data", "attribute_dtypes"}, {"contour_gdf"}),
        St({"plt"}, {"fig", "ax"}),
        St({"landsat_intervals", "ax"}, {}),
        St({"contour_gdf", "ax"}, {}),
        St({"plt"}, {})>>),
    \* lines 387-387
    Cell(<<St({"waterline_funcs", "contour_gdf"}, {})>>),
    \* lines 412-425
    Cell(<<St({"waterline_funcs", "contour_gdf"}, {"xyz_array"}),
        St({"waterline_funcs", "landsat_intervals", "xyz_array"}, {"intertidal_dem"}),
        St({"intertidal_dem"}, {}),
        St({"plt"}, {})>>),
    \* lines 441-450
    Cell(<<St({"landsat_intervals"}, {"above_lowest"}),
        St({"landsat_intervals"}, {"below_highest"}),
        St({"intertidal_dem", "above_lowest", "below_highest"}, {"intertidal_dem_clean"}),
        St({"intertidal_dem_clean"}, {}),
        St({"plt"}, {})>>)
  >>

\* Code cells of src/unnamed/part_002, in notebook order.
DoItYourselfCells(filled_in) ==
  <<
    \* lines 73-75 (assignments left blank for the analyst)
    IF filled_in THEN Cell(<<St({}, {"coordinates"})>>)
    ELSE SyntaxErrorCell,
    \* lines 95-105 (assignments left blank for the analyst)
    IF filled_in THEN Cell(<<St({}, {"box_size"}),
        St({"coordinates"}, {"centre_x"}),
        St({"coordinates"}, {"centre_y"}),
        St({"centre_x", "box_size"}, {"bounding_box_x"}),
        St({"centre_y", "box_size"}, {"bounding_box_y"})>>)
    ELSE SyntaxErrorCell,
    \* lines 125-148
    Cell(<<St({}, {"datacube"}),
        St({}, {"warnings"}),
        St({"warnings"}, {}),
        St({"datacube"}, {"dc"}),
        St({"dc", "bounding_box_x", "bounding_box_y"}, {"dataset"})>>),
    \* lines 171-171
    Cell(<<St({"dataset"}, {})>>),
    \* lines 204-226 (assignments left blank for the analyst)
    IF filled_in THEN Cell(<<St({}, {"plt"}),
        St({}, {"rgb"}),
        St({}, {"time_step"}),
        St({}, {"bands"}),
        St({"rgb", "dataset", "bands", "time_step"}, {}),
        St({"dataset", "time_step"}, {"time_string"}),
        St({"plt"}, {"ax"}),
        St({"ax", "time_string"}, {}),
        St({"ax"}, {}),
        St({"ax"}, {}),
        St({"plt"}, {})>>)
    ELSE SyntaxErrorCell,
    \* lines 243-248
    Cell(<<St({}, {"helpers"}),
        St({}, {"filename"}),
        St({"helpers", "dataset", "time_step", "filename"}, {})>>),
    \* lines 282-290 (assignments left blank for the analyst)
    IF filled_in THEN Cell(<<St({}, {"ndvi"}),
        St({"plt"}, {}),
        St({"ndvi", "time_step"}, {}),
        St({"plt"}, {})>>)
    ELSE SyntaxErrorCell
  >>

\* Code cells of src/09_Workflows/CumulativeMassResidualRainfall.ipynb, in notebook order.
MassResidualRainfallCells ==
  <<
    \* lines 65-86
    Cell(<<St({}, {"os"}),
        St({}, {"np"}),
        St({}, {"sys"}),
        St({}, {"xr"}),
        St({}, {"datetime"}),
        St({}, {"plt"}),
        St({}, {"datacube"}),
        St({}, {"geometry"}),
        St({}, {"write_dataset_to_netcdf"}),
        St({}, {"write_geotiff"}),
        St({"sys", "os"}, {}),
        St({}, {"load_rainfall"})>>),
    \* lines 108-115
    Cell(<<St({}, {"query"})>>),
    \* lines 141-143
    Cell(<<St({"datacube"}, {"dc"}),
        St({"load_rainfall", "query"}, {"rainfall"})>>),
    \* lines 164-165
    Cell(<<St({"rainfall"}, {"rainfall_bydayofyear"})>>),
    \* lines 179-180
    Cell(<<St({"rainfall"}, {"rainfall_dayofyear_mean"})>>),
    \* lines 194-195
    Cell(<<St({"rainfall_dayofyear_mean", "cumulative_rainfall"}, {"cumulative_mean_rainfall"})>>),
    \* lines 216-216
    Cell(<<St({"cumulative_rainfall", "cumulative_mean_rainfall"}, {"mass_residual"})>>),
    \* lines 237-237
    Cell(<<St({"mass_residual"}, {})>>),
    \* lines 258-258
    Cell(<<St({"mass_residual"}, {})>>)
  >>

\* Code cells of src/DEA_sandbox/Case_Studies/Mining.ipynb, in notebook order.
MiningCells ==
  <<
    \* lines 82-84
    Cell(<<St({}, {"load_mining_data", "run_mining_app"})>>),
    \* lines 109-109
    Cell(<<St({"load_mining_data"}, {"dataset_fc"})>>),
    \* lines 131-131
    Cell(<<St({"run_mining_app", "dataset_fc"}, {})>>)
  >>

\* Code cells of src/DEA_sandbox/Code_Examples/Dask_Average_Colour_Australia.ipynb, in notebook order.
DaskAverageColourCells ==
  <<
    \* lines 25-31
    Cell(<<St({}, {"datacube"}),
        St({}, {"np"}),
        St({}, {"plt"}),
        St({"datacube"}, {"dc"})>>),
    \* lines 49-52
    Cell(<<St({}, {"dask"}),
        St({}, {"Client"}),
        St({"Client"}, {"client"})>>),
    \* lines 69-78
    Cell(<<St({}, {"latitude", "longitude"}),
        St({}, {"buffer"}),
        St({"latitude", "buffer"}, {"latitude_range"}),
        St({"longitude", "buffer"}, {"longitude_range"}),
        St({}, {"date_range"})>>),
    \* lines 96-109
    Cell(<<St({"dc", "longitude_range", "latitude_range", "date_range"}, {"ds"}),
        St({"ds"}, {})>>),
    \* lines 127-130
    Cell(<<St({"ds"}, {"n_pixels"}),
        St({"n_pixels"}, {"n_pixels_billions"}),
        St({"n_pixels_billions"}, {})>>),
    \* lines 150-155
    Cell(<<St({}, {"get_rgb"})>>),
    \* lines 164-173
    Cell(<<St({"ds"}, {"average"}),
        St({}, {"scaling_factor"}),
        St({"average", "scaling_factor"}, {"scaled_average"}),
        St({"get_rgb", "scaled_average"}, {"rgb", "hex_colour"}),
        St({"hex_colour"}, {}),
        St({"rgb"}, {})>>),
    \* lines 189-193
    Cell(<<St({}, {"Rectangle"}),
        St({"plt"}, {"fig", "ax"}),
        St({"ax", "Rectangle", "hex_colour"}, {}),
        St({"plt"}, {})>>)
  >>

\* Code cells of src/DEA_sandbox/Code_Examples/Dask_Average_Colour_Australia.ipynb, in notebook order.
TiledSegmentationCells ==
  <<
    \* lines 278-303
    Cell(<<St({}, {"inputTiff"}),
        St({}, {"InputKEA"}),
        St({}, {"ClumpsFile"}),
        St({}, {"meanImageTiff"}),
        St({}, {"temp"}),
        St({}, {"ncpus"}),
        St({}, {"validDataTileFraction"}),
        St({}, {"width"}),
        St({}, {"height"})>>),
    \* lines 319-333
    Cell(<<St({}, {"gdal"}),
        St({}, {"os"}),
        St({}, {"osr"}),
        St({}, {"meanImage"}),
        St({}, {"rsgislib"}),
        St({}, {"Pool"}),
        St({}, {"dill"}),
        St({}, {"xr"}),
        St({}, {"np"}),
        St({}, {"sys"}),
        St({"sys"}, {}),
        St({}, {"tiledSegParallel"}),
        St({}, {"geotransform"}),
        St({}, {"array_to_geotiff"})>>),
    \* lines 342-343
    Cell(<<St({"gdal", "InputKEA", "inputTiff"}, {})>>),
    \* lines 352-354
    Cell(<<St({"tiledSegParallel", "InputKEA", "ClumpsFile", "temp", "validDataTileFraction", "width", "height", "ncpus"}, {})>>),
    \* lines 363-364
    Cell(<<St({"meanImage", "inputTiff", "ClumpsFile", "meanImageTiff", "rsgislib"}, {})>>),
    \* lines 373-380
    Cell(<<St({"xr", "ClumpsFile"}, {"a"}),
        St({"geotransform", "a"}, {"transform", "projection"}),
        St({"a"}, {"width", "height"}),
        St({"array_to_geotiff", "ClumpsFile", "a", "transform", "projection"}, {})>>)
  >>

NotebookNames ==
  {"SiteMatching", "Forestry", "CoastalErosion", "IntertidalElevation",
   "DoItYourself", "MassResidualRainfall", "Mining", "DaskAverageColour",
   "TiledSegmentation"}

\* The code cells of a notebook.
CellsOf(name, filled_in) ==
  CASE name = "SiteMatching" -> SiteMatchingCells
    [] name = "Forestry" -> ForestryCells
    [] name = "CoastalErosion" -> CoastalErosionCells
    [] name = "IntertidalElevation" -> IntertidalElevationCells
    [] name = "DoItYourself" -> DoItYourselfCells(filled_in)
    [] name = "MassResidualRainfall" -> MassResidualRainfallCells
    [] name = "Mining" -> MiningCells
    [] name = "DaskAverageColour" -> DaskAverageColourCells
    [] name = "TiledSegmentation" -> TiledSegmentationCells

\* Running the statements of one cell from statement i on: a statement whose
\* names are all bound runs and binds its targets; a statement that reads an
\* unbound name raises NameError, which ends the cell (the bindings made by
\* the statements before it stay in the kernel).
RECURSIVE RunStmts(_, _, _)
RunStmts(stmts, i, ns) ==
  IF i > Len(stmts) THEN [ns |-> ns, missing |-> {}]
  ELSE IF stmts[i].uses \subseteq ns
       THEN RunStmts(stmts, i + 1, ns \cup stmts[i].defs)
       ELSE [ns |-> ns, missing |-> stmts[i].uses \ ns]


RunInit ==
  /\ nb \in NotebookNames
  /\ filled \in (IF nb = "DoItYourself" THEN BOOLEAN ELSE {FALSE})
  /\ cell = 1
  /\ kernel = {}
  /\ unbound = {}

\* Run the next code cell (Shift-Enter / "Run all" on a fresh kernel).
RunCell ==
  /\ cell <= Len(CellsOf(nb, filled))
  /\ LET c == CellsOf(nb, filled)[cell]
         r == RunStmts(c.stmts, 1, kernel)
     IN /\ kernel' = r.ns
        /\ unbound' = unbound \cup r.missing
  /\ cell' = cell + 1
  /\ UNCHANGED <<nb, filled>>
  /\ UNCHANGED notRun


(***************************************************************************)
(* Part 2: Site_matching.ipynb, the site/date matching loop                *)
(***************************************************************************)

\* Resolution of the time axis: instants per day.  A ground observation date
\* is the midnight of its day; a satellite timestep can be any instant.
TicksPerDay == 2
\* Days 0..MaxDay are covered by the ground observations and the imagery.
MaxDay == 2
\* Largest value of obs_window tried.
MaxWindow == 1
\* Number of sites in the locations table and of rows in the dates table.
NSites == 1
NDates == 2
\* Most satellite timesteps load_ard returns for one site.
MaxScenes == 2
\* Largest reflectance value of a band.
MaxBand == 2

Days == 0..MaxDay
Ticks == 0..((MaxDay + 1) * TicksPerDay - 1)
Reflectance == (0..MaxBand) \cup {NaN}
\* A ground measurement, or NaN where the table has no value.
GroundValues == {5, NaN}

Abs(x) == IF x < 0 THEN -x ELSE x

\* datetime.strptime(date_string, "%d/%m/%Y"): midnight of the day.
TargetDate(day) == day * TicksPerDay

\* ds.sel(time=t, method="nearest"): the timestep with the least distance to
\* t; of two timesteps at the same distance the later one is taken
\* (pandas Index.get_indexer, method "nearest", on an increasing index).
SelNearest(times, t) ==
  CHOOSE c \in times :
    \A o \in times : \/ Abs(c - t) < Abs(o - t)
                     \/ (Abs(c - t) = Abs(o - t) /\ c >= o)

\* Timedelta.days of a non-negative time difference: the whole days in it.
TimedeltaDays(delta) == delta \div TicksPerDay

\* The window test of the date loop: time_delta.days <= obs_window.
WithinWindow(delta, window) == TimedeltaDays(delta) <= window

\* A band ratio with the two bands of the numerator in the other order.
NormalisedDifference_Swapped(a, b) ==
  IF a = NaN \/ b = NaN THEN QNaN
  ELSE IF a + b = 0 THEN QNaN
  ELSE <<b - a, a + b>>

\* (a - b) / (a + b) on floats, as an exact fraction <<numerator, denominator>>:
\* not-a-number when an operand is NaN and for 0 / 0.
NormalisedDifference(a, b) ==
  IF a = NaN \/ b = NaN THEN QNaN
  ELSE IF a + b = 0 THEN QNaN
  ELSE <<a - b, a + b>>

\* round(x, 4) of the fraction num/den (den > 0), in units of 0.0001,
\* halves rounded to the even neighbour.
Round4(q) ==
  LET n == q[1] * 10000
      d == q[2]
      f == n \div d
      r == n - f * d
  IN IF 2 * r < d THEN f
     ELSE IF 2 * r > d THEN f + 1
     ELSE IF f % 2 = 0 THEN f ELSE f + 1


\* The datasets load_ard can return for a site with timesteps at the
\* instants times, each with the red edge and red value of the pixel
\* nearest to the site.
Datasets(times) ==
  {{[time |-> t, nbart_red_edge_1 |-> f[t][1], nbart_red |-> f[t][2]] :
      t \in times} :
     f \in [times -> Reflectance \X Reflectance]}

\* The time coordinate of a dataset.
Times(ds) == {px.time : px \in ds}

\* The timestep of a dataset at instant c.
AtTime(ds, c) == CHOOSE px \in ds : px.time = c

SiteInit ==
  /\ obs_window \in 0..MaxWindow
  /\ site_dates \in [1..NDates -> Days]
  /\ site = 1
  /\ site_values = <<>>
  /\ ds_s2 = {}
  /\ count = 0
  /\ rows = <<>>
  /\ location_results = <<>>
  /\ spc = "site"

\* Head of the site loop: read the site's column of ground values and load
\* its Sentinel-2 timesteps.
StartSite ==
  /\ spc = "site"
  /\ site <= NSites
  /\ site_values' \in [1..NDates -> GroundValues]
  /\ \E times \in {s \in SUBSET Ticks : Cardinality(s) \in 1..MaxScenes} :
       ds_s2' \in Datasets(times)
  /\ count' = 1
  /\ spc' = "date"
  /\ UNCHANGED <<obs_window, site_dates, site, rows, location_results>>
  /\ UNCHANGED notSite

\* The entry the date loop appends for the closest timestep c.
MatchRow(target_date, c) ==
  LET px == AtTime(ds_s2, c)
      ndci == NormalisedDifference(px.nbart_red_edge_1, px.nbart_red)
  IN [SiteName |-> site,
      ObservationDate |-> target_date,
      TimeDelta |-> TimedeltaDays(Abs(target_date - c)),
      ObservationValue |-> site_values[count],
      Red |-> px.nbart_red,
      RedEdge |-> px.nbart_red_edge_1,
      NDCI |-> Round4(ndci)]

\* One pass of the date loop for the current site.
MatchDate ==
  /\ spc = "date"
  /\ LET target_date == TargetDate(site_dates[count])
         closest == SelNearest(Times(ds_s2), target_date)
         time_delta == Abs(target_date - closest)
         px == AtTime(ds_s2, closest)
         ndci == NormalisedDifference(px.nbart_red_edge_1, px.nbart_red)
     IN rows' = IF /\ WithinWindow(time_delta, obs_window)
                   /\ ndci # QNaN
                   /\ site_values[count] # NaN
                THEN Append(rows, MatchRow(target_date, closest))
                ELSE rows
  /\ IF count < NDates
     THEN /\ count' = count + 1
          /\ UNCHANGED <<site, spc>>
     ELSE /\ count' = count
          /\ site' = site + 1
          /\ spc' = IF site < NSites THEN "site" ELSE "compile"
  /\ UNCHANGED <<obs_window, site_dates, site_values, ds_s2, location_results>>
  /\ UNCHANGED notSite

\* After the loops: compile the lists into the table and save it.
CompileResults ==
  /\ spc = "compile"
  /\ location_results' = rows
  /\ spc' = "done"
  /\ UNCHANGED <<obs_window, site_dates, site, site_values, ds_s2, count, rows>>
  /\ UNCHANGED notSite



(***************************************************************************)
(* Part 3: Forestry.ipynb, the two samples and the significance mask       *)
(***************************************************************************)

\* Observation times are 0..MaxTime; at most MaxObs observations are loaded.
MaxTime == 2
MaxObs == 2
\* Pixels of the area of interest.
NPixels == 1
\* NDVI values are 0..MaxNDVI, or NaN where cloud was masked.
MaxNDVI == 1
\* sig_level = 0.05, in hundredths.
sig_level == 5

Pixels == 1..NPixels
NDVIValues == (0..MaxNDVI) \cup {NaN}
\* p-values of the t-test around the significance level, in hundredths; NaN
\* where the test has no result.
PValues == {sig_level - 1, sig_level, sig_level + 1, NaN}

\* The NDVI time series load_ard and calculate_indices can give with
\* observations at the instants times: the observations in time order.
NDVISeries(times) ==
  {SortedByTime({[time |-> t, NDVI |-> f[t]] : t \in times}) :
     f \in [times -> [Pixels -> NDVIValues]]}

\* A split that leaves the observation at the baseline date out.
InBaseline_Before(t, baseline) == t < baseline

\* ds_s2['time'] <= np.datetime64(time_baseline)
InBaseline(t, baseline) == t <= baseline

\* ds_s2['time'] > np.datetime64(time_baseline)
InPostBaseline(t, baseline) == t > baseline

\* sample.mean(dim=['time']) at pixel p: the mean of the values that are not
\* NaN, as <<sum, count>>; not-a-number when there is none.
RECURSIVE SumValid(_, _, _)
SumValid(sample, p, i) ==
  IF i > Len(sample) THEN <<0, 0>>
  ELSE LET rest == SumValid(sample, p, i + 1)
           v == sample[i].NDVI[p]
       IN IF v = NaN THEN rest ELSE <<rest[1] + v, rest[2] + 1>>

MeanOverTime(sample, p) == SumValid(sample, p, 1)

\* x - y on quotients: not-a-number when an operand is.
QSub(x, y) ==
  IF x = QNaN \/ y = QNaN THEN QNaN
  ELSE <<x[1] * y[2] - y[1] * x[2], x[2] * y[2]>>

\* x.where(cond): x where cond holds, not-a-number elsewhere.
Where(x, cond) == IF cond THEN x ELSE QNaN

\* A rejection rule that also rejects at p = sig_level.
Significant_OrEqual(p) == FloatLE(p, sig_level)

\* t_test.p_val < sig_level
Significant(p) == FloatLT(p, sig_level)

ForestInit ==
  /\ time_baseline \in 0..MaxTime
  /\ \E times \in {s \in SUBSET (0..MaxTime) : Cardinality(s) <= MaxObs} :
       ds_ndvi \in NDVISeries(times)
  /\ baseline_sample = <<>>
  /\ postbaseline_sample = <<>>
  /\ p_val = [p \in Pixels |-> NaN]
  /\ diff_mean = [p \in Pixels |-> QNaN]
  /\ sig_diff_mean = [p \in Pixels |-> QNaN]
  /\ fpc = "samples"

\* The "Make samples" cell.
MakeSamples ==
  /\ fpc = "samples"
  /\ baseline_sample' =
       SelectSeq(ds_ndvi, LAMBDA o : InBaseline(o.time, time_baseline))
  /\ postbaseline_sample' =
       SelectSeq(ds_ndvi, LAMBDA o : InPostBaseline(o.time, time_baseline))
  /\ fpc' = "ttest"
  /\ UNCHANGED <<time_baseline, ds_ndvi, p_val, diff_mean, sig_diff_mean>>
  /\ UNCHANGED notForest

\* The "Test for change" cell: scipy's ttest_ind gives a p-value per pixel.
TestForChange ==
  /\ fpc = "ttest"
  /\ p_val' \in [Pixels -> PValues]
  /\ fpc' = "visualise"
  /\ UNCHANGED <<time_baseline, ds_ndvi, baseline_sample, postbaseline_sample,
                 diff_mean, sig_diff_mean>>
  /\ UNCHANGED notForest

\* The "Visualise change" cell.
VisualiseChange ==
  /\ fpc = "visualise"
  /\ diff_mean' =
       [p \in Pixels |-> QSub(MeanOverTime(postbaseline_sample, p),
                              MeanOverTime(baseline_sample, p))]
  /\ sig_diff_mean' =
       [p \in Pixels |->
          QSub(Where(MeanOverTime(postbaseline_sample, p), Significant(p_val[p])),
               Where(MeanOverTime(baseline_sample, p), Significant(p_val[p])))]
  /\ fpc' = "done"
  /\ UNCHANGED <<time_baseline, ds_ndvi, baseline_sample, postbaseline_sample,
                 p_val>>
  /\ UNCHANGED notForest


(***************************************************************************)
(* Part 4: coastal erosion notebook, the tide filter and the composites    *)
(*                                                                         *)
(* An image is a record [time, tide_height, water_index]: the year it was  *)
(* taken in (the resampling periods end with a calendar year, so the year  *)
(* is all it reads of a time), the modelled tide height in decimetres and  *)
(* the water index at one pixel (every array operation of the notebook     *)
(* works pixel by pixel).                                                  *)
(***************************************************************************)

\* Images are taken in the years 0..MaxYear; at most MaxImages are loaded.
MaxYear == 2
MaxImages == 3

\* tide_range = (0.00, 1.40), in decimetres.
tide_range == <<0, 14>>

\* time_step: '1Y' or '2Y', in years.
TimeSteps == {1, 2}

\* Water index of a pixel: land, water, or NaN where cloud was masked.
WaterIndexValues == {0 - 1, 1, NaN}

\* Tide heights the tide model can give: the lowest height of tide_range, a
\* height inside the range, the highest height of the range, a height above.
TideHeights == {tide_range[1], tide_range[1] + 1, tide_range[2],
                tide_range[2] + 1}

\* The datasets of n images dc.load can give, before tide heights are
\* modelled: the images in time order.
LandsatSeries(n) ==
  {s \in [1..n -> [time : 0..MaxYear, tide_height : {NaN},
                   water_index : WaterIndexValues]] :
     \A i \in 1..(n - 1) : s[i].time <= s[i + 1].time}

\* (ds.tide_height > tide_range[0]) & (ds.tide_height < tide_range[1])
InTideRange(h) == FloatGT(h, tide_range[1]) /\ FloatLT(h, tide_range[2])

\* The k-th smallest (k = 1 is the smallest) of the values that are not NaN.
KthSmallest(values, k) ==
  LET valid == {i \in DOMAIN values : values[i] # NaN}
      at == CHOOSE i \in valid :
              /\ Cardinality({j \in valid : values[j] < values[i]}) < k
              /\ Cardinality({j \in valid : values[j] <= values[i]}) >= k
  IN values[at]

\* A summary statistic that takes the largest valid value (doubled).
Maximum2(values) ==
  LET valid == {i \in DOMAIN values : values[i] # NaN}
  IN IF valid = {} THEN NaN
     ELSE 2 * KthSmallest(values, Cardinality(valid))

\* median('time') of the values of one pixel, skipping NaN, doubled to stay
\* an integer: the middle value, or the mean of the two middle values; NaN
\* when no value is valid.
Median2(values) ==
  LET valid == {i \in DOMAIN values : values[i] # NaN}
      n == Cardinality(valid)
  IN IF n = 0 THEN NaN
     ELSE IF n % 2 = 1 THEN 2 * KthSmallest(values, (n + 1) \div 2)
     ELSE KthSmallest(values, n \div 2) + KthSmallest(values, n \div 2 + 1)

\* resample(time=time_step): the periods are time_step calendar years long
\* and closed at their last year, which labels them; the first period ends
\* with the year of the first image, the last one holds the last image.
\* Number of periods:
PeriodCount(ds, step) ==
  (ds[Len(ds)].time - ds[1].time + step - 1) \div step + 1

\* Index of the period an image taken at time t falls in.
PeriodOf(ds, step, t) == (t - ds[1].time + step - 1) \div step + 1

\* Last year of period k.
PeriodLabel(ds, step, k) == ds[1].time + (k - 1) * step

\* The water index values of the images of period k, in time order.
PeriodValues(ds, step, k) ==
  LET members == SelectSeq(ds, LAMBDA im : PeriodOf(ds, step, im.time) = k)
  IN [i \in DOMAIN members |-> members[i].water_index]

\* The arguments of a contour_extract call that has not been made.
NoCall == [ds_array |-> <<>>, attribute_data |-> <<>>]

\* str(i)[0:10] of a time: the date <<year, month, day>> of its ISO text. The
\* times of the summaries are the last days of their periods, 31 December.
Str10(t) == <<t, 12, 31>>

\* A list of attributes with the layers taken from the last to the first.
TimeAttributes_Reversed(ds) ==
  [i \in DOMAIN ds |-> Str10(ds[Len(ds) + 1 - i].time)]

\* [str(i)[0:10] for i in ds.time.values]
TimeAttributes(ds) == [i \in DOMAIN ds |-> Str10(ds[i].time)]

CoastInit ==
  /\ time_step \in TimeSteps
  /\ \E n \in 1..MaxImages : landsat_ds \in LandsatSeries(n)
  /\ landsat_filtered = <<>>
  /\ landsat_summaries = <<>>
  /\ shoreline_call = NoCall
  /\ cpc = "tag"

\* The "Model tide heights" cell: tidal_tag adds a tide height to each image.
TidalTag ==
  /\ cpc = "tag"
  /\ \E h \in [DOMAIN landsat_ds -> TideHeights] :
       landsat_ds' = [i \in DOMAIN landsat_ds |->
                        [landsat_ds[i] EXCEPT !.tide_height = h[i]]]
  /\ cpc' = "filter"
  /\ UNCHANGED <<time_step, landsat_filtered, landsat_summaries, shoreline_call>>
  /\ UNCHANGED notCoast

\* The "Filter Landsat images by tide height" cell: where(..., drop=True)
\* drops the images the condition is false for and keeps the others as
\* they are, in their order.
FilterByTide ==
  /\ cpc = "filter"
  /\ landsat_filtered' =
       SelectSeq(landsat_ds, LAMBDA im : InTideRange(im.tide_height))
  /\ cpc' = "combine"
  /\ UNCHANGED <<time_step, landsat_ds, landsat_summaries, shoreline_call>>
  /\ UNCHANGED notCoast

\* The "Combine by time" cell: one median image per period; a dataset
\* without images cannot be resampled and the cell raises.
CombineByTime ==
  /\ cpc = "combine"
  /\ IF landsat_filtered = <<>>
     THEN /\ cpc' = "error"
          /\ UNCHANGED landsat_summaries
     ELSE /\ landsat_summaries' =
               [k \in 1..PeriodCount(landsat_filtered, time_step) |->
                  [time |-> PeriodLabel(landsat_filtered, time_step, k),
                   water_index |->
                     Median2(PeriodValues(landsat_filtered, time_step, k))]]
          /\ cpc' = "extract"
  /\ UNCHANGED <<time_step, landsat_ds, landsat_filtered, shoreline_call>>
  /\ UNCHANGED notCoast

\* The "Extract shorelines from imagery" cell: contour_extract is called
\* with the summaries as the raster stack and their dates as attributes.
ExtractShorelines ==
  /\ cpc = "extract"
  /\ LET attribute_data == TimeAttributes(landsat_summaries)
     IN shoreline_call' = [ds_array |-> landsat_summaries,
                           attribute_data |-> attribute_data]
  /\ cpc' = "done"
  /\ UNCHANGED <<time_step, landsat_ds, landsat_filtered, landsat_summaries>>
  /\ UNCHANGED notCoast


(***************************************************************************)
(* Part 5: intertidal elevation notebook, tidal intervals and the DEM mask *)
(*                                                                         *)
(* An image is a record [time, tide_height, water_index] as in Part 4,     *)
(* with the position of the image in the time series as its time.          *)
(***************************************************************************)

\* At most MaxTidalImages images are loaded.
MaxTidalImages == 9
\* Interpolated elevations are 0..MaxDEM, or NaN outside the contours.
MaxDEM == 1

\* range(1, 10): the tidal intervals are 1..NIntervals.
NIntervals == 9

\* Steps between one tide height and the next higher one of a dataset.
Gaps == {0, 1}

DEMValues == (0..MaxDEM) \cup {NaN}

\* Water index of the pixel: land, the shoreline value 0, water, or NaN.
ShoreIndexValues == WaterIndexValues \cup {0}

\* The tide heights of n images from the lowest up, for given gaps.
RECURSIVE HeightAt(_, _)
HeightAt(gaps, i) == IF i = 1 THEN 0 ELSE HeightAt(gaps, i - 1) + gaps[i - 1]

\* The water index of the pixel in an image taken at tide height h: the
\* value low up to some tide level and the value high above it.
WaterIndexAt(h, level, low, high) == IF h <= level THEN low ELSE high

\* The image taken at time i when the tide height is h.
ImageAt(i, h, level, w) ==
  [time |-> i, tide_height |-> h,
   water_index |-> WaterIndexAt(h, level, w[1], w[2])]

\* A dataset of n images taken while the tide rises.
RisingSeries(n, gaps, level, w) ==
  [i \in 1..n |-> ImageAt(i, HeightAt(gaps, i), level, w)]

\* A dataset of n images taken while the tide falls.
FallingSeries(n, gaps, level, w) ==
  [i \in 1..n |-> ImageAt(i, HeightAt(gaps, n + 1 - i), level, w)]

\* ds.sortby('tide_height'): ascending, images of equal height in their
\* order in ds.
RECURSIVE SortImages(_, _)
SortImages(ds, I) ==
  IF I = {} THEN <<>>
  ELSE LET first == CHOOSE i \in I : \A j \in I :
                      \/ ds[i].tide_height < ds[j].tide_height
                      \/ ds[i].tide_height = ds[j].tide_height /\ i <= j
       IN <<ds[first]>> \o SortImages(ds, I \ {first})

SortByTide(ds) == SortImages(ds, DOMAIN ds)

\* tide_height.quantile(np.linspace(0, 1.0, 10)): the NIntervals + 1 bin
\* edges, each multiplied by NIntervals to stay an integer. Edge k is the
\* quantile (k - 1) / NIntervals of the sorted heights, by linear
\* interpolation between the two heights around position
\* (n - 1) * (k - 1) / NIntervals.
BinInterval(sorted) ==
  [k \in 1..(NIntervals + 1) |->
     LET pos == (Len(sorted) - 1) * (k - 1)
         lo == pos \div NIntervals + 1
         part == pos % NIntervals
     IN IF part = 0 THEN NIntervals * sorted[lo].tide_height
        ELSE NIntervals * sorted[lo].tide_height
             + part * (sorted[lo + 1].tide_height - sorted[lo].tide_height)]

\* pd.cut raises "Bin edges must be unique" when two edges are equal.
UniqueEdges(bins) ==
  \A j, k \in DOMAIN bins : j # k => bins[j] # bins[k]

\* pd.cut(x, bins, labels=range(1, 10), include_lowest=True) of one height
\* x (multiplied by NIntervals as the edges are): the number of edges below
\* x, the lowest edge itself going to interval 1; NaN outside the edges.
Cut(x, bins) ==
  LET ids == IF x = bins[1] THEN 1
             ELSE Cardinality({k \in DOMAIN bins : bins[k] < x})
  IN IF ids = 0 \/ ids = Len(bins) THEN NaN ELSE ids

\* groupby('tide_interval'): the groups are the intervals that label an image.
PresentIntervals(labels) == {k \in 1..NIntervals : \E i \in DOMAIN labels : labels[i] = k}

\* The elements of a set of integers as a sequence in increasing order.
RECURSIVE Ascending(_)
Ascending(S) ==
  IF S = {} THEN <<>>
  ELSE LET least == CHOOSE x \in S : \A y \in S : x <= y
       IN <<least>> \o Ascending(S \ {least})

\* The images of ds that labels puts in interval k.
GroupOf(ds, labels, k) ==
  LET members == {i \in DOMAIN ds : labels[i] = k}
      order == Ascending(members)
  IN [j \in DOMAIN order |-> ds[order[j]]]

\* A mask that keeps a pixel on either condition.
KeepPixel_Either(lowest, highest) == FloatLT(lowest, 0) \/ FloatGT(highest, 0)

\* above_lowest & below_highest
KeepPixel(lowest, highest) == FloatLT(lowest, 0) /\ FloatGT(highest, 0)

\* The state after the "Model tide heights" cells: at least one image, each
\* with a tide height.
TidalInit ==
  /\ \E n \in 1..MaxTidalImages :
       \E gaps \in [1..(n - 1) -> Gaps], level \in 0..(n - 1),
          w \in ShoreIndexValues \X ShoreIndexValues :
         intertidal_ds \in {RisingSeries(n, gaps, level, w),
                            FallingSeries(n, gaps, level, w)}
  /\ tide_intervals = <<>>
  /\ landsat_intervals = <<>>
  /\ intertidal_dem = NaN
  /\ intertidal_dem_clean = NaN
  /\ depthcontour_call = NoCall
  /\ ipc = "bin"

\* The cell that sorts the images by tide height and bins them into tidal
\* intervals. The dataset is sorted before pd.cut can raise.
BinTideHeights ==
  /\ ipc = "bin"
  /\ LET sorted == SortByTide(intertidal_ds)
         binInterval == BinInterval(sorted)
     IN /\ intertidal_ds' = sorted
        /\ IF UniqueEdges(binInterval)
           THEN /\ tide_intervals' =
                     [i \in DOMAIN sorted |->
                        Cut(NIntervals * sorted[i].tide_height, binInterval)]
                /\ ipc' = "group"
           ELSE /\ UNCHANGED tide_intervals
                /\ ipc' = "error"
  /\ UNCHANGED <<landsat_intervals, intertidal_dem, intertidal_dem_clean,
                 depthcontour_call>>
  /\ UNCHANGED notTidal

\* The cell that takes the median of each tidal interval: one summary per
\* group, in increasing order of tide_interval; the medians are doubled.
GroupByInterval ==
  /\ ipc = "group"
  /\ LET groups == Ascending(PresentIntervals(tide_intervals))
     IN landsat_intervals' =
          [g \in DOMAIN groups |->
             LET images == GroupOf(intertidal_ds, tide_intervals, groups[g])
             IN [tide_interval |-> groups[g],
                 water_index |->
                   Median2([i \in DOMAIN images |-> images[i].water_index]),
                 tide_height |->
                   Median2([i \in DOMAIN images |-> images[i].tide_height])]]
  /\ ipc' = "contour"
  /\ UNCHANGED <<intertidal_ds, tide_intervals, intertidal_dem,
                 intertidal_dem_clean, depthcontour_call>>
  /\ UNCHANGED notTidal

\* The "Extract depth contours from imagery" cell: contour_extract is called
\* with the water index summaries as the raster stack along tide_interval
\* and their median tide heights (doubled) as attributes.
ExtractDepthContours ==
  /\ ipc = "contour"
  /\ LET attribute_data ==
           [i \in DOMAIN landsat_intervals |-> landsat_intervals[i].tide_height]
     IN depthcontour_call' =
          [ds_array |-> [i \in DOMAIN landsat_intervals |->
                           [tide_interval |-> landsat_intervals[i].tide_interval,
                            water_index |-> landsat_intervals[i].water_index]],
           attribute_data |-> attribute_data]
  /\ ipc' = "dem"
  /\ UNCHANGED <<intertidal_ds, tide_intervals, landsat_intervals,
                 intertidal_dem, intertidal_dem_clean>>
  /\ UNCHANGED notTidal

\* The cell that interpolates elevations between the extracted contours.
InterpolateDEM ==
  /\ ipc = "dem"
  /\ intertidal_dem' \in DEMValues
  /\ ipc' = "clean"
  /\ UNCHANGED <<intertidal_ds, tide_intervals, landsat_intervals,
                 intertidal_dem_clean, depthcontour_call>>
  /\ UNCHANGED notTidal

\* The cell that keeps only the pixels between low and high tide:
\* isel(tide_interval=0) is the first summary, isel(tide_interval=-1) the
\* last one.
CleanDEM ==
  /\ ipc = "clean"
  /\ LET above_lowest == landsat_intervals[1].water_index
         below_highest == landsat_intervals[Len(landsat_intervals)].water_index
     IN intertidal_dem_clean' =
          IF KeepPixel(above_lowest, below_highest) THEN intertidal_dem ELSE NaN
  /\ ipc' = "done"
  /\ UNCHANGED <<intertidal_ds, tide_intervals, landsat_intervals,
                 intertidal_dem, depthcontour_call>>
  /\ UNCHANGED notTidal


(***************************************************************************)
(* Part 6: a case-study notebook run, its parameters edited, and run again *)
(*                                                                         *)
(* The kernel keeps every name bound by the first run. A value is a record *)
(* [deps, stale]: the parameters its computation read, and whether it was  *)
(* computed from a parameter value that has been edited since. Output      *)
(* files are kept in the same map under their file names.                  *)
(***************************************************************************)

\* The notebooks with a parameter cell and a "Next steps" section.
CaseStudies == {"Forestry", "CoastalErosion", "IntertidalElevation"}

\* Index of the "Analysis parameters" / "Set up analysis" code cell.
ParameterCell(name) == IF name = "Forestry" THEN 3 ELSE 2

\* The names the parameter cell binds.
Parameters(name) ==
  LET stmts == CellsOf(name, FALSE)[ParameterCell(name)].stmts
  IN UNION {stmts[i].defs : i \in DOMAIN stmts}

\* What statement s of cell c writes besides the names it binds: a dataset
\* it assigns a variable of (landsat_ds['water_index'] = ...), or the output
\* file it writes.
Writes(name, c, s) ==
  CASE name = "CoastalErosion" /\ <<c, s>> = <<6, 1>> -> {"landsat_ds"}
    [] name = "CoastalErosion" /\ <<c, s>> = <<11, 3>> -> {"output_waterlines.shp"}
    [] name = "IntertidalElevation" /\ <<c, s>> \in {<<6, 1>>, <<8, 3>>, <<9, 4>>}
         -> {"landsat_ds"}
    [] name = "IntertidalElevation" /\ <<c, s>> = <<11, 3>>
         -> {"output_depthcontours.shp"}
    [] name = "Forestry" /\ <<c, s>> = <<13, 3>> -> {"ttest_diff_mean.tif"}
    [] name = "Forestry" /\ <<c, s>> = <<13, 4>> -> {"ttest_sig_diff_mean.tif"}
    [] OTHER -> {}

\* The statements that raise for some data: resample on a dataset the tide
\* filter left no image of, and pd.cut on bin edges that are not unique.
CanRaise(name, c, s) ==
  \/ name = "CoastalErosion" /\ <<c, s>> = <<10, 1>>
  \/ name = "IntertidalElevation" /\ <<c, s>> = <<9, 3>>

\* Run the statements of cell c from statement i on in namespace k, up to
\* the statement stop that raises (0: none raises): each statement computes
\* a value from the values of the names it reads and stores it under the
\* names it binds or writes.
RECURSIVE RunFrom(_, _, _, _, _)
RunFrom(name, c, i, stop, k) ==
  LET stmts == CellsOf(name, FALSE)[c].stmts
  IN IF i > Len(stmts) \/ i = stop \/ ~(stmts[i].uses \subseteq DOMAIN k)
     THEN k
     ELSE LET st == stmts[i]
              targets == st.defs \cup Writes(name, c, i)
              value == [deps |-> UNION {k[u].deps : u \in st.uses}
                                   \cup (IF c = ParameterCell(name)
                                         THEN st.defs ELSE {}),
                        stale |-> \E u \in st.uses : k[u].stale]
          IN RunFrom(name, c, i + 1, stop,
                     [n \in DOMAIN k \cup targets |->
                        IF n \in targets THEN value ELSE k[n]])

\* A fresh kernel running the cells from c on, top to bottom, until the
\* statement at (the <<cell, statement>> that raises, <<0, 0>> for none).
RECURSIVE RunAll(_, _, _, _)
RunAll(name, c, at, k) ==
  IF c > Len(CellsOf(name, FALSE)) THEN k
  ELSE IF c = at[1] THEN RunFrom(name, c, 1, at[2], k)
  ELSE RunAll(name, c + 1, at, RunFrom(name, c, 1, 0, k))

RerunInit ==
  /\ rnb \in CaseStudies
  /\ changed = {}
  /\ rcell = 1
  /\ rkernel = <<>>
  /\ raised = <<0, 0>>
  /\ rpc = "first"

\* The first run, top to bottom: run the next cell. The run is complete, no
\* cell raises.
FirstRunCell ==
  /\ rpc = "first"
  /\ rcell <= Len(CellsOf(rnb, FALSE))
  /\ rkernel' = RunFrom(rnb, rcell, 1, 0, rkernel)
  /\ rcell' = rcell + 1
  /\ UNCHANGED <<rnb, changed, raised, rpc>>
  /\ UNCHANGED notRerun

\* "Next steps": the analyst returns to the parameter cell and modifies some
\* values. What the kernel holds is unchanged, but the values computed from
\* a modified parameter are now out of date.
EditParameters ==
  /\ rpc = "first"
  /\ rcell > Len(CellsOf(rnb, FALSE))
  /\ changed' \in (SUBSET Parameters(rnb)) \ {{}}
  /\ rkernel' = [n \in DOMAIN rkernel |->
                   [rkernel[n] EXCEPT !.stale = (rkernel[n].deps \cap changed' # {})]]
  /\ rcell' = ParameterCell(rnb)
  /\ rpc' = "rerun"
  /\ UNCHANGED <<rnb, raised>>
  /\ UNCHANGED notRerun

\* The second run: the parameter cell and every cell below it; the next cell
\* runs to its end.
RerunCell ==
  /\ rpc = "rerun"
  /\ rkernel' = RunFrom(rnb, rcell, 1, 0, rkernel)
  /\ rcell' = rcell + 1
  /\ rpc' = IF rcell = Len(CellsOf(rnb, FALSE)) THEN "done" ELSE "rerun"
  /\ UNCHANGED <<rnb, changed, raised>>
  /\ UNCHANGED notRerun

\* The second run: a statement of the next cell raises for the data of the
\* new parameters; the kernel stops the run and keeps its namespace.
RerunCellRaises ==
  /\ rpc = "rerun"
  /\ \E s \in DOMAIN CellsOf(rnb, FALSE)[rcell].stmts :
       /\ CanRaise(rnb, rcell, s)
       /\ rkernel' = RunFrom(rnb, rcell, 1, s, rkernel)
       /\ raised' = <<rcell, s>>
  /\ rpc' = "aborted"
  /\ UNCHANGED <<rnb, changed, rcell>>
  /\ UNCHANGED notRerun


(***************************************************************************)
(* Part 7: the normalised difference indices                               *)
(*                                                                         *)
(* Every array operation is pixel by pixel, so one pixel of one image      *)
(* stands for the array: two band values, each a reflectance or NaN where  *)
(* the pixel was masked.                                                   *)
(***************************************************************************)

\* Reflectances of a band are 0..MaxReflectance.
MaxReflectance == 6

BandValues == (0..MaxReflectance) \cup {NaN}

\* The notebooks that compute an index, with the name of the index.
IndexNotebooks == {"CoastalErosion", "IntertidalElevation", "Site_matching"}

IndexInit ==
  /\ ixnb \in IndexNotebooks
  /\ band_a \in BandValues
  /\ band_b \in BandValues
  /\ index_value = QNaN
  /\ ixpc = "load"

\* landsat_ds['water_index'] = (green - swir1) / (green + swir1)
ComputeMNDWI ==
  /\ ixpc = "load" /\ ixnb = "CoastalErosion"
  /\ index_value' = NormalisedDifference(band_a, band_b)
  /\ ixpc' = "done"
  /\ UNCHANGED <<ixnb, band_a, band_b>>
  /\ UNCHANGED notIndex

\* landsat_ds['water_index'] = (green - nir) / (green + nir)
ComputeNDWI ==
  /\ ixpc = "load" /\ ixnb = "IntertidalElevation"
  /\ index_value' = NormalisedDifference(band_a, band_b)
  /\ ixpc' = "done"
  /\ UNCHANGED <<ixnb, band_a, band_b>>
  /\ UNCHANGED notIndex

\* ds_closest["ndci"] = (nbart_red_edge_1 - nbart_red) / (nbart_red_edge_1 + nbart_red)
ComputeNDCI ==
  /\ ixpc = "load" /\ ixnb = "Site_matching"
  /\ index_value' = NormalisedDifference(band_a, band_b)
  /\ ixpc' = "done"
  /\ UNCHANGED <<ixnb, band_a, band_b>>
  /\ UNCHANGED notIndex


(***************************************************************************)
(* Part 8: intertidal elevation notebook, the tide height of each image    *)
(*                                                                         *)
(* Time is counted in ticks, TicksPerHour to the hour; the tide file holds *)
(* one height per hour, the first at tick 0. Heights are integers; an      *)
(* interpolated height is kept multiplied by TicksPerHour, which makes it  *)
(* an integer.                                                             *)
(***************************************************************************)

TicksPerHour == 2
\* The tide file holds 2..MaxMeasurements hourly heights in 0..MaxTide.
MaxMeasurements == 3
MaxTide == 2
\* At most MaxTaggedImages images are loaded.
MaxTaggedImages == 2

\* Time of the k-th row of the tide file.
MeasuredAt(k) == (k - 1) * TicksPerHour

\* The times an image can have: from the tick before the first measurement
\* the file can hold to the tick after the last (time_range and tide_file
\* are set independently of each other).
ImageTimes == (0 - 1)..(MeasuredAt(MaxMeasurements) + 1)

\* tide_data_xr.interp(time=t), linear: outside the measured times the
\* result is NaN; inside, with lo and hi the measurements around t,
\* slope * (t - x_lo) + y_lo where slope = (y_hi - y_lo) / (x_hi - x_lo).
\* The result is multiplied by TicksPerHour = x_hi - x_lo.
Interp(tide, t) ==
  LET n == Len(tide)
  IN IF t < MeasuredAt(1) \/ t > MeasuredAt(n) THEN NaN
     ELSE LET below == Cardinality({k \in 1..n : MeasuredAt(k) < t})
              hi == (IF below < 1 THEN 1 ELSE IF below > n - 1 THEN n - 1
                     ELSE below) + 1
              lo == hi - 1
          IN (tide[hi] - tide[lo]) * (t - MeasuredAt(lo))
               + TicksPerHour * tide[lo]

\* The images are loaded, in time order, before the tide file is read.
TideInit ==
  /\ tide_data = <<>>
  /\ \E n \in 1..MaxTaggedImages :
       landsat_times \in {s \in [1..n -> ImageTimes] :
                            \A i \in 1..(n - 1) : s[i] < s[i + 1]}
  /\ landsat_tideheights = <<>>
  /\ tdpc = "read"

\* tide_data = pd.read_csv(tide_file, parse_dates=['time'], index_col='time')
ReadTideData ==
  /\ tdpc = "read"
  /\ \E n \in 2..MaxMeasurements : tide_data' \in [1..n -> 0..MaxTide]
  /\ tdpc' = "interp"
  /\ UNCHANGED <<landsat_times, landsat_tideheights>>
  /\ UNCHANGED notTide

\* landsat_tideheights = tide_data_xr.interp(time=landsat_ds.time)
\* landsat_ds['tide_height'] = landsat_tideheights.tide_height
InterpolateTides ==
  /\ tdpc = "interp"
  /\ landsat_tideheights' =
       [i \in DOMAIN landsat_times |-> Interp(tide_data, landsat_times[i])]
  /\ tdpc' = "done"
  /\ UNCHANGED <<tide_data, landsat_times>>
  /\ UNCHANGED notTide


(***************************************************************************)
(* Part 9: the average colour of Australia, computed through Dask          *)
(*                                                                         *)
(* The three bands are averaged independently of each other, so one band   *)
(* stands for each of them. The band is loaded as 16 bit integers;         *)
(* where(ds > 0) turns it into single precision floats, and the sums,      *)
(* counts and the quotient of the mean are single precision too. A float   *)
(* here has MantissaBits significant bits in place of 24; the values are   *)
(* integers, so every sum is an integer rounded to that many bits.         *)
(***************************************************************************)

MantissaBits == 3
\* The band holds 1..MaxPixels pixels with values 0, 1 or MaxColour.
MaxPixels == 4
MaxColour == 8

ColourValues == {0, 1, MaxColour}

RECURSIVE Pow2(_)
Pow2(k) == IF k = 0 THEN 1 ELSE 2 * Pow2(k - 1)

\* Round a quotient num / den to the nearest integer, halves to the even one.
RoundHalfEven(num, den) ==
  LET q == num \div den
      r == num % den
  IN IF 2 * r < den THEN q
     ELSE IF 2 * r > den THEN q + 1
     ELSE IF q % 2 = 0 THEN q ELSE q + 1

\* The distance between neighbouring floats around x >= 0, from u upwards.
RECURSIVE Ulp(_, _)
Ulp(x, u) == IF x < u * Pow2(MantissaBits) THEN u ELSE Ulp(x, 2 * u)

\* The float nearest to the integer x >= 0.
Round(x) == LET u == Ulp(x, 1) IN u * RoundHalfEven(x, u)

\* a + b on floats.
FAdd(a, b) == Round(a + b)

\* num / den rounded to a float <<mantissa, exponent>> standing for
\* mantissa * 2^exponent, for num > 0 and den > 0.
RECURSIVE FDivAt(_, _, _)
FDivAt(num, den, e) ==
  IF num >= den * Pow2(MantissaBits) THEN FDivAt(num, 2 * den, e + 1)
  ELSE IF num < den * Pow2(MantissaBits - 1) THEN FDivAt(2 * num, den, e - 1)
  ELSE LET m == RoundHalfEven(num, den)
       IN IF m = Pow2(MantissaBits) THEN <<Pow2(MantissaBits - 1), e + 1>>
          ELSE <<m, e>>

\* total / n on floats: 0 / 0 is not a number.
FDiv(total, n) ==
  IF n = 0 THEN QNaN
  ELSE IF total = 0 THEN <<0, 1>>
  ELSE FDivAt(total, n, 0)

\* A mask that also keeps the pixels whose value is 0.
WherePositive_OrZero(v) == IF v >= 0 THEN v ELSE NaN

\* ds.where(ds > 0), for one pixel: the value, or NaN.
WherePositive(v) == IF v > 0 THEN v ELSE NaN

\* nansum of the float values in order: NaN counts as 0.
RECURSIVE NanSum(_)
NanSum(values) ==
  IF values = <<>> THEN 0
  ELSE LET last == values[Len(values)]
       IN FAdd(NanSum(SubSeq(values, 1, Len(values) - 1)),
               IF last = NaN THEN 0 ELSE last)

\* The sum of floats in order.
RECURSIVE FSum(_)
FSum(values) ==
  IF values = <<>> THEN 0
  ELSE FAdd(FSum(SubSeq(values, 1, Len(values) - 1)), values[Len(values)])

\* The chunks of dask_chunks: chunk c holds the pixels after its cut up to
\* the next one.
ChunkEdges == Ascending({0, Len(ds_band)} \cup chunking)
NChunks == Len(ChunkEdges) - 1
ChunkOf(c) ==
  [i \in 1..(ChunkEdges[c + 1] - ChunkEdges[c]) |->
     WherePositive(ds_band[ChunkEdges[c] + i])]

\* The task of one chunk of the mean: the sum of the values that are not NaN
\* and their number.
MeanChunk(values) ==
  [total |-> NanSum(values),
   n |-> FSum([i \in DOMAIN values |-> IF values[i] = NaN THEN 0 ELSE 1])]

\* The last task of the mean: the sums and the numbers of the chunks are
\* added in the order of the chunks and divided.
MeanAgg(parts) ==
  FDiv(FSum([c \in DOMAIN parts |-> parts[c].total]),
       FSum([c \in DOMAIN parts |-> parts[c].n]))

\* dc.load(..., dask_chunks=...): the band and its chunks; nothing is
\* computed yet.
DaskInit ==
  /\ \E n \in 1..MaxPixels :
       /\ ds_band \in [1..n -> ColourValues]
       /\ chunking \in SUBSET (1..(n - 1))
  /\ partials = <<>>
  /\ finished = <<>>
  /\ average = QNaN
  /\ dpc = "compute"

\* average = ds.where(ds>0).mean(): the task of a chunk finishes on a
\* worker, in any order with the tasks of the other chunks.
ChunkTask ==
  /\ dpc = "compute"
  /\ \E c \in (1..NChunks) \ Range(finished) :
       /\ partials' = [d \in DOMAIN partials \cup {c} |->
                         IF d = c THEN MeanChunk(ChunkOf(c)) ELSE partials[d]]
       /\ finished' = Append(finished, c)
  /\ UNCHANGED <<ds_band, chunking, average, dpc>>
  /\ UNCHANGED notDask

\* average = ds.where(ds>0).mean(): all the chunk tasks have finished and
\* the last task combines their results.
Aggregate ==
  /\ dpc = "compute"
  /\ Len(finished) = NChunks
  /\ average' = MeanAgg(partials)
  /\ dpc' = "done"
  /\ UNCHANGED <<ds_band, chunking, partials, finished>>
  /\ UNCHANGED notDask


(***************************************************************************)
(* Specifications                                                          *)
(***************************************************************************)

vars == <<runVars, siteVars, forestVars, coastVars, tidalVars, rerunVars,
    indexVars, tideVars, daskVars>>

\* The parts of the state a specification does not use stay at rest.
RunIdle ==
  /\ nb = "Mining" /\ filled = FALSE /\ cell = 1 /\ kernel = {} /\ unbound = {}

SiteIdle ==
  /\ obs_window = 0 /\ site_dates = <<>> /\ site = 1 /\ site_values = <<>>
  /\ ds_s2 = {} /\ count = 0 /\ rows = <<>> /\ location_results = <<>>
  /\ spc = "idle"

ForestIdle ==
  /\ time_baseline = 0 /\ ds_ndvi = <<>> /\ baseline_sample = <<>>
  /\ postbaseline_sample = <<>> /\ p_val = <<>> /\ diff_mean = <<>>
  /\ sig_diff_mean = <<>> /\ fpc = "idle"

CoastIdle ==
  /\ time_step = 0 /\ landsat_ds = <<>> /\ landsat_filtered = <<>>
  /\ landsat_summaries = <<>> /\ shoreline_call = NoCall /\ cpc = "idle"

TidalIdle ==
  /\ intertidal_ds = <<>> /\ tide_intervals = <<>> /\ landsat_intervals = <<>>
  /\ intertidal_dem = NaN /\ intertidal_dem_clean = NaN
  /\ depthcontour_call = NoCall /\ ipc = "idle"

RerunIdle ==
  /\ rnb = "Forestry" /\ changed = {} /\ rcell = 0 /\ rkernel = <<>>
  /\ raised = <<0, 0>> /\ rpc = "idle"

IndexIdle ==
  /\ ixnb = "Site_matching" /\ band_a = NaN /\ band_b = NaN
  /\ index_value = QNaN /\ ixpc = "idle"

TideIdle ==
  /\ tide_data = <<>> /\ landsat_times = <<>> /\ landsat_tideheights = <<>>
  /\ tdpc = "idle"

DaskIdle ==
  /\ ds_band = <<>> /\ chunking = {} /\ partials = <<>> /\ finished = <<>>
  /\ average = QNaN /\ dpc = "idle"

\* A fresh kernel running one notebook top to bottom.
RunNext == RunCell
InitRun == RunInit /\ SiteIdle /\ ForestIdle /\ CoastIdle /\ TidalIdle /\
    RerunIdle /\ IndexIdle /\ TideIdle /\ DaskIdle
SpecRun == InitRun /\ [][RunNext]_vars

\* The site-matching cell of Site_matching.ipynb.
SiteNext == StartSite \/ MatchDate \/ CompileResults
InitSite == SiteInit /\ RunIdle /\ ForestIdle /\ CoastIdle /\ TidalIdle /\
    RerunIdle /\ IndexIdle /\ TideIdle /\ DaskIdle
SpecSite == InitSite /\ [][SiteNext]_vars

\* The hypothesis-test cells of Forestry.ipynb.
ForestNext == MakeSamples \/ TestForChange \/ VisualiseChange
InitForest == ForestInit /\ RunIdle /\ SiteIdle /\ CoastIdle /\ TidalIdle /\
    RerunIdle /\ IndexIdle /\ TideIdle /\ DaskIdle
SpecForest == InitForest /\ [][ForestNext]_vars

\* The tide filter and compositing cells of the coastal erosion notebook.
CoastNext == TidalTag \/ FilterByTide \/ CombineByTime \/ ExtractShorelines
InitCoast == CoastInit /\ RunIdle /\ SiteIdle /\ ForestIdle /\ TidalIdle /\
    RerunIdle /\ IndexIdle /\ TideIdle /\ DaskIdle
SpecCoast == InitCoast /\ [][CoastNext]_vars

\* The binning, summary and DEM cells of the intertidal elevation notebook.
TidalNext ==
  BinTideHeights \/ GroupByInterval \/ ExtractDepthContours \/ InterpolateDEM
    \/ CleanDEM
InitTidal == TidalInit /\ RunIdle /\ SiteIdle /\ ForestIdle /\ CoastIdle /\
    RerunIdle /\ IndexIdle /\ TideIdle /\ DaskIdle
SpecTidal == InitTidal /\ [][TidalNext]_vars

\* A case-study notebook run, edited at its parameter cell and run again.
RerunNext == FirstRunCell \/ EditParameters \/ RerunCell \/ RerunCellRaises
InitRerun == RerunInit /\ RunIdle /\ SiteIdle /\ ForestIdle /\ CoastIdle /\
    TidalIdle /\ IndexIdle /\ TideIdle /\ DaskIdle
SpecRerun == InitRerun /\ [][RerunNext]_vars

\* One pixel of a loaded image and its band index.
IndexNext == ComputeMNDWI \/ ComputeNDWI \/ ComputeNDCI
InitIndex == IndexInit /\ RunIdle /\ SiteIdle /\ ForestIdle /\ CoastIdle /\
    TidalIdle /\ RerunIdle /\ TideIdle /\ DaskIdle
SpecIndex == InitIndex /\ [][IndexNext]_vars

\* The two notebooks that extract contours, each up to its last cell.
ContourNext ==
  TidalTag \/ FilterByTide \/ CombineByTime \/ ExtractShorelines
    \/ BinTideHeights \/ GroupByInterval \/ ExtractDepthContours
    \/ InterpolateDEM \/ CleanDEM
InitContour ==
  /\ (CoastInit /\ TidalIdle) \/ (TidalInit /\ CoastIdle)
  /\ RunIdle /\ SiteIdle /\ ForestIdle /\ RerunIdle /\ IndexIdle /\ TideIdle
  /\ DaskIdle
SpecContour == InitContour /\ [][ContourNext]_vars

\* The two tide height cells of the intertidal elevation notebook.
TideNext == ReadTideData \/ InterpolateTides
InitTide == TideInit /\ RunIdle /\ SiteIdle /\ ForestIdle /\ CoastIdle /\
    TidalIdle /\ RerunIdle /\ IndexIdle /\ DaskIdle
SpecTide == InitTide /\ [][TideNext]_vars

\* The average colour cell on the Dask cluster.
DaskNext == ChunkTask \/ Aggregate
InitDask == DaskInit /\ RunIdle /\ SiteIdle /\ ForestIdle /\ CoastIdle /\
    TidalIdle /\ RerunIdle /\ IndexIdle /\ TideIdle
SpecDask == InitDask /\ [][DaskNext]_vars


(***************************************************************************)
(* Claims                                                                  *)
(***************************************************************************)

\* C1: running a notebook's code cells once each, top to bottom, on a fresh
\* kernel never reads a name that no earlier cell or import has bound.
C1_NoUnboundRead == unbound = {}

\* The least distance in time from t to a timestep of the set times.
MinDistance(times, t) ==
  CHOOSE d \in {Abs(c - t) : c \in times} :
    \A e \in {Abs(c - t) : c \in times} : d <= e

\* The calendar day an instant falls on.
DayOf(t) == t \div TicksPerDay

\* A timestep at instant c is within w days before or after the ground
\* observation date t when its calendar day is at most w days from the date
\* (of the readings of "within obs_window days" the one that accepts most).
WithinDays(c, t, w) == Abs(DayOf(c) - DayOf(t)) <= w

\* C2: in the site-matching loop an entry is recorded for a (site, ground
\* observation date) pair only if the closest satellite timestep is no more
\* than obs_window days before or after the observation date; when it is
\* further away, nothing is recorded for the pair.
C2_RecordedOnlyWithinWindow ==
  [][(spc = "date" /\ rows' # rows)
       => LET t == TargetDate(site_dates[count])
          IN \E c \in Times(ds_s2) :
               /\ Abs(c - t) = MinDistance(Times(ds_s2), t)
               /\ WithinDays(c, t, obs_window)]_vars

\* C3: for every site and ground observation date the timestep used is one
\* closest in time to the observation date among the timesteps loaded for the
\* site, and an entry (at most one, built from that timestep) is recorded
\* exactly when that timestep is within obs_window days, its NDCI at the
\* pixel is not NaN and the ground value is not NaN.
C3_NearestRecordedExactlyWhenValid ==
  [][spc = "date" =>
       LET t == TargetDate(site_dates[count])
           times == Times(ds_s2)
       IN \E c \in times :
            /\ Abs(c - t) = MinDistance(times, t)
            /\ rows' =
                 IF /\ WithinDays(c, t, obs_window)
                    /\ NormalisedDifference(AtTime(ds_s2, c).nbart_red_edge_1,
                                            AtTime(ds_s2, c).nbart_red) # QNaN
                    /\ site_values[count] # NaN
                 THEN Append(rows, MatchRow(t, c))
                 ELSE rows]_vars

\* C4: the split at time_baseline yields two non-overlapping samples that
\* together hold every loaded observation: each observation is in exactly
\* one of baseline_sample (time at or before time_baseline) and
\* postbaseline_sample (time after time_baseline).
C4_SamplesPartitionObservations ==
  fpc \in {"ttest", "visualise", "done"} =>
    /\ Range(baseline_sample) \cup Range(postbaseline_sample) = Range(ds_ndvi)
    /\ Range(baseline_sample) \cap Range(postbaseline_sample) = {}
    /\ Len(baseline_sample) + Len(postbaseline_sample) = Len(ds_ndvi)
    /\ \A o \in Range(baseline_sample) : o.time <= time_baseline
    /\ \A o \in Range(postbaseline_sample) : o.time > time_baseline

\* C4 witness: both samples hold an observation, one of them taken exactly
\* at the baseline date.
C4_Witness ==
  /\ fpc = "ttest"
  /\ baseline_sample # <<>>
  /\ postbaseline_sample # <<>>
  /\ \E o \in Range(baseline_sample) : o.time = time_baseline

\* C5: a pixel is classified as significant change exactly when its p_val is
\* less than sig_level: sig_diff_mean has a value at a pixel if and only if
\* p_val < sig_level there and diff_mean is defined, it then equals diff_mean,
\* and every other pixel is masked.
C5_SignificantExactlyBelowLevel ==
  fpc = "done" =>
    \A p \in Pixels :
      IF p_val[p] # NaN /\ p_val[p] < sig_level /\ diff_mean[p] # QNaN
      THEN sig_diff_mean[p] = diff_mean[p]
      ELSE sig_diff_mean[p] = QNaN

\* C5 witness: a pixel with a non-zero significant difference in the mean.
C5_Witness ==
  /\ fpc = "done"
  /\ \E p \in Pixels : sig_diff_mean[p] # QNaN /\ sig_diff_mean[p][1] # 0


\* C6: the tide filter keeps exactly the images whose tide height is within
\* tide_range, the two heights of the range included: every image with
\* tide_range[0] <= tide_height <= tide_range[1] is kept, every other image
\* is removed, and the kept images stay in their original time order.
C6_KeepsExactlyTheTideRange ==
  cpc \in {"combine", "extract", "done", "error"} =>
    landsat_filtered =
      SelectSeq(landsat_ds,
                LAMBDA im : /\ im.tide_height # NaN
                            /\ tide_range[1] <= im.tide_height
                            /\ im.tide_height <= tide_range[2])

\* C7: the binning gives every image exactly one tidal interval label in
\* 1..9, none left unlabelled; labels are monotone in tide height, interval
\* 1 holding the lowest tide and interval 9 the highest.
C7_EveryImageLabelledMonotone ==
  ipc # "bin" =>
    /\ DOMAIN tide_intervals = DOMAIN intertidal_ds
    /\ \A i \in DOMAIN intertidal_ds : tide_intervals[i] \in 1..NIntervals
    /\ \A a, b \in DOMAIN intertidal_ds :
         intertidal_ds[a].tide_height <= intertidal_ds[b].tide_height
           => tide_intervals[a] <= tide_intervals[b]
    /\ \A a \in DOMAIN intertidal_ds :
         /\ (\A b \in DOMAIN intertidal_ds :
               intertidal_ds[a].tide_height <= intertidal_ds[b].tide_height)
              => tide_intervals[a] = 1
         /\ (\A b \in DOMAIN intertidal_ds :
               intertidal_ds[a].tide_height >= intertidal_ds[b].tide_height)
              => tide_intervals[a] = NIntervals

\* Tidal interval k labels at least one image.
Occupied(k) == \E i \in DOMAIN tide_intervals : tide_intervals[i] = k

\* C8: grouping by tide_interval and taking the median yields exactly nine
\* summary images, one for each tidal interval 1..9 (every interval holds
\* at least one image), ordered from the lowest to the highest tide.
C8_NineSummaries ==
  ipc \in {"contour", "dem", "clean", "done"} =>
    /\ Len(landsat_intervals) = NIntervals
    /\ \A k \in 1..NIntervals :
         landsat_intervals[k].tide_interval = k /\ Occupied(k)

\* m2 is twice a median of the values that are not NaN: at most half of them
\* are below it and at most half above it, it is one of them when their
\* number is odd and the mean of two of them when it is even; NaN when
\* there is no such value.
IsMedian2(m2, values) ==
  LET valid == {i \in DOMAIN values : values[i] # NaN}
      n == Cardinality(valid)
  IN IF n = 0 THEN m2 = NaN
     ELSE /\ m2 # NaN
          /\ 2 * Cardinality({i \in valid : 2 * values[i] < m2}) <= n
          /\ 2 * Cardinality({i \in valid : 2 * values[i] > m2}) <= n
          /\ n % 2 = 1 => \E i \in valid : m2 = 2 * values[i]
          /\ n % 2 = 0 =>
               \E i, j \in valid : i # j /\ m2 = values[i] + values[j]

\* Filtered image i was taken in the period that summary k stands for: the
\* time_step years that end with the year of the summary.
InPeriod(i, k) ==
  /\ landsat_summaries[k].time - time_step < landsat_filtered[i].time
  /\ landsat_filtered[i].time <= landsat_summaries[k].time

\* C9: compositing produces exactly one summary image for each
\* time_step-long period in the filtered dataset (consecutive periods, from
\* the one of the first image to the one of the last image); every filtered
\* image is in exactly one period, and each summary pixel is the median of
\* the pixel's valid values over the images of its period. Without filtered
\* images there is no period and no summary.
C9_OneMedianSummaryPerPeriod ==
  /\ cpc = "error" => landsat_filtered = <<>> /\ landsat_summaries = <<>>
  /\ cpc \in {"extract", "done"} =>
       /\ landsat_summaries # <<>>
       /\ \A k \in 1..(Len(landsat_summaries) - 1) :
            landsat_summaries[k + 1].time = landsat_summaries[k].time + time_step
       /\ InPeriod(1, 1)
       /\ InPeriod(Len(landsat_filtered), Len(landsat_summaries))
       /\ \A i \in DOMAIN landsat_filtered :
            Cardinality({k \in DOMAIN landsat_summaries : InPeriod(i, k)}) = 1
       /\ \A k \in DOMAIN landsat_summaries :
            LET members == {i \in DOMAIN landsat_filtered : InPeriod(i, k)}
            IN IsMedian2(landsat_summaries[k].water_index,
                         [i \in members |-> landsat_filtered[i].water_index])

\* C9 witness: at least two periods, one of them with a valid and a masked
\* value.
C9_Witness ==
  /\ cpc = "done"
  /\ Len(landsat_summaries) >= 2
  /\ \E k \in DOMAIN landsat_summaries :
       /\ landsat_summaries[k].water_index # NaN
       /\ \E i, j \in DOMAIN landsat_filtered :
            /\ InPeriod(i, k) /\ InPeriod(j, k)
            /\ landsat_filtered[i].water_index = NaN
            /\ landsat_filtered[j].water_index # NaN

\* C10: a pixel keeps its interpolated elevation if and only if its water
\* index is below 0 in the lowest tidal interval's summary and above 0 in
\* the highest tidal interval's summary (the summaries of intervals 1 and
\* 9); every other pixel is masked, and a kept pixel's value is not changed.
C10_KeptExactlyBetweenTides ==
  ipc = "done" =>
    LET lowest == landsat_intervals[1].water_index
        highest == landsat_intervals[Len(landsat_intervals)].water_index
    IN /\ landsat_intervals[1].tide_interval = 1
       /\ landsat_intervals[Len(landsat_intervals)].tide_interval = NIntervals
       /\ IF lowest # NaN /\ lowest < 0 /\ highest # NaN /\ highest > 0
          THEN intertidal_dem_clean = intertidal_dem
          ELSE intertidal_dem_clean = NaN

\* C10 witness: a pixel that keeps an elevation.
C10_Witness ==
  /\ ipc = "done"
  /\ intertidal_dem_clean # NaN
  /\ intertidal_dem_clean = intertidal_dem

\* C11: after a complete run, editing the parameter cell and re-running it
\* and every cell below leaves every result variable and output file equal
\* to what a fresh kernel running the notebook top to bottom with the new
\* parameters produces; no value of the earlier run survives.
C11_RerunEqualsFreshRun ==
  rpc \in {"done", "aborted"} => rkernel = RunAll(rnb, 1, raised, <<>>)

\* C12: every index is the normalised band ratio (A - B) / (A + B) of its
\* two bands: for band values that are not negative with A + B > 0 the index
\* is a number in [-1, 1], is greater than 0 exactly when A > B, and has the
\* opposite sign with the same size when A and B are swapped.
C12_IndexIsNormalisedRatio ==
  (ixpc = "done" /\ band_a # NaN /\ band_b # NaN /\ band_a >= 0 /\ band_b >= 0
     /\ band_a + band_b > 0)
  => /\ index_value # QNaN
     /\ index_value[2] > 0
     /\ index_value[1] * (band_a + band_b) = (band_a - band_b) * index_value[2]
     /\ 0 - index_value[2] <= index_value[1]
     /\ index_value[1] <= index_value[2]
     /\ (index_value[1] > 0) <=> (band_a > band_b)
     /\ NormalisedDifference(band_b, band_a)
          = <<0 - index_value[1], index_value[2]>>

\* An index was computed from a first band larger than the second, both
\* reflectances of an unmasked pixel.
C12_Witness ==
  /\ ixpc = "done" /\ band_a # NaN /\ band_b # NaN
  /\ band_a > band_b /\ band_b > 0
  /\ index_value[1] > 0

Between(h, lo, hi) ==
  \/ TicksPerHour * lo <= h /\ h <= TicksPerHour * hi
  \/ TicksPerHour * hi <= h /\ h <= TicksPerHour * lo

\* C14: every image receives an estimated tide height for its own
\* timestamp; for a timestamp between two consecutive hourly measurements
\* the height lies between the two measured heights, and it is the measured
\* height when the timestamp is that of a measurement.
C14_EveryImageHasInterpolatedTide ==
  tdpc = "done" =>
    /\ DOMAIN landsat_tideheights = DOMAIN landsat_times
    /\ \A i \in DOMAIN landsat_times :
         /\ landsat_tideheights[i] # NaN
         /\ \A k \in 1..(Len(tide_data) - 1) :
              (MeasuredAt(k) <= landsat_times[i]
                 /\ landsat_times[i] <= MeasuredAt(k + 1))
              => Between(landsat_tideheights[i], tide_data[k], tide_data[k + 1])
         /\ \A k \in DOMAIN tide_data :
              landsat_times[i] = MeasuredAt(k)
              => landsat_tideheights[i] = TicksPerHour * tide_data[k]

\* The positive values of the band, in pixel order.
PositiveValues == SelectSeq(ds_band, LAMBDA v : v > 0)

\* The exact sum of a sequence of integers.
RECURSIVE ExactSum(_)
ExactSum(values) ==
  IF values = <<>> THEN 0
  ELSE ExactSum(SubSeq(values, 1, Len(values) - 1)) + values[Len(values)]

\* The mean of the positive values computed sequentially over the whole
\* band, in floats.
SequentialMean == FDiv(FSum(PositiveValues), Len(PositiveValues))

\* The mean of the positive values, the exact quotient rounded once.
ExactMean == FDiv(ExactSum(PositiveValues), Len(PositiveValues))

====
